---- MODULE Spec2Model ----
(***************************************************************************)
(* A model of diary.py: the events file and its backup, and one Diary      *)
(* object at a time running one option (print, delete, add-event, ...)     *)
(* from construction to exit.  Datetimes are counted in ticks; a day is    *)
(* TicksPerDay ticks and the representable datetimes (datetime.min ..      *)
(* datetime.max) are the ticks DATETIME_MIN .. DATETIME_MAX.               *)
(***************************************************************************)
EXTENDS Integers, Sequences, FiniteSets, TLC

\* ------------------------------------------------------------------ bounds
\* Ticks in one day (the resolution of datetime.timedelta(days=1)).
TicksPerDay == 2
\* The representable calendar is day 0 .. day MaxDay.
MaxDay == 3
\* Largest number of records in an events file the model starts from.
MaxInit == 2
\* An add-event is only started on an events file of fewer records than this.
MaxEvents == 2

DATETIME_MIN == 0
DATETIME_MAX == (MaxDay + 1) * TicksPerDay - 1
Datetimes == DATETIME_MIN .. DATETIME_MAX
\* The clock reads any time of day 1 .. day MaxDay - 1.
NowValues == TicksPerDay .. (MaxDay * TicksPerDay - 1)
\* Day counts a user passes to --print / --delete.
NumDaysValues == (0 - MaxDay + 1) .. (MaxDay - 1)
\* Repeat intervals (days) found in a stored record or typed by the user.
RepeatValues == 1 .. (MaxDay - 1)

\* A value of option['print'] / option['delete'] that int() rejects.
NotAnInt == "abc"
\* self.min_datetime / self.max_datetime before set_min_max_datetimes ran.
Unset == 0 - 1
\* The process has not exited yet.
Running == 0 - 1

\* ------------------------------------------------------- datetime and ISO
\* datetime + datetime.timedelta(days): the sum, which the caller tests with
\* Representable (Python raises OverflowError outside datetime.min..max).
PlusDays(dt, days) == dt + days * TicksPerDay

Representable(dt) == dt >= DATETIME_MIN /\ dt <= DATETIME_MAX

\* datetime.datetime(now.year, now.month, now.day): 00:00 of now's day.
StartOfToday(t) == t - (t % TicksPerDay)

\* datetime.isoformat(sep=' '): "<date> <time>", here <<day, tick of day>>.
IsoFormat(dt) == <<dt \div TicksPerDay, dt % TicksPerDay>>

\* datetime.datetime.fromisoformat(event_dict.get('ISO')).
get_datetime_from_event_dict(e) == e.ISO[1] * TicksPerDay + e.ISO[2]

\* String comparison of two ISO values (k['ISO'] < k2['ISO']).
IsoLess(a, b) == a[1] < b[1] \/ (a[1] = b[1] /\ a[2] < b[2])

\* --------------------------------------------------------- event records
\* An event dictionary is a record whose DOMAIN is the set of its keys.
HasKey(e, k) == k \in DOMAIN e

\* event_dict.get('repeat', False): 0 stands for a falsy value.
GetRepeat(e) == IF HasKey(e, "repeat") THEN e.repeat ELSE 0

\* dict(event_dict) with d[k] = v.
WithKey(e, k, v) == [x \in DOMAIN e \cup {k} |-> IF x = k THEN v ELSE e[x]]

\* dict(event_dict) after del d[k].
WithoutKey(e, k) == [x \in DOMAIN e \ {k} |-> e[x]]

REQUIRED_KEYS == {"title", "ISO"}

\* ------------------------------------------------------------- documents
\* A path of the file system: absent, a directory, or a file with content.
\* The content of a file is a JSON array of event objects (events), written
\* without whitespace (compact) or not; or text json.load rejects
\* ("garbage"; "empty" is the empty file open(path, 'w') leaves).
Absent == [kind |-> "absent", events |-> <<>>, compact |-> FALSE]
Directory == [kind |-> "dir", events |-> <<>>, compact |-> FALSE]
Garbage == [kind |-> "garbage", events |-> <<>>, compact |-> FALSE]
EmptyFile == [kind |-> "empty", events |-> <<>>, compact |-> FALSE]
JsonDoc(evs, c) == [kind |-> "json", events |-> evs, compact |-> c]

\* json.dump(self.events, events_file, separators=(',', ':')).
JsonDump(evs) == JsonDoc(evs, TRUE)

\* ------------------------------------------------------------ user input
\* A line the user types at a prompt, or a command line parameter: a string
\* that reads as the integer / date / time n (Typed), or another string.
Typed(n) == [s |-> "int", n |-> n]
Str(x) == [s |-> x, n |-> 0]

\* return_int_or_false_from_str, were it not to test must_be_positive.
return_int_or_false_from_str_AnySign(str_to_check, must_be_positive) ==
  IF str_to_check.s # "int" THEN 0 ELSE str_to_check.n

\* int(str_to_check) in return_int_or_false_from_str; False and 0 are both
\* falsy and every caller tests "if not ...", so False is returned as 0.
return_int_or_false_from_str(str_to_check, must_be_positive) ==
  IF str_to_check.s # "int" THEN 0
  ELSE IF must_be_positive /\ str_to_check.n < 1 THEN 0
  ELSE str_to_check.n

\* What return_int_or_false_from_str prints.
IntMessage(str_to_check, must_be_positive) ==
  IF str_to_check.s # "int" THEN {"Number of days must be an integer."}
  ELSE IF must_be_positive /\ str_to_check.n < 1
       THEN {"Number of days must be a positive integer."}
  ELSE {}

\* ------------------------------------------------- loading the events file
\* read_events_file, were it to write back the array it read.
read_events_file_Rewrites(f) ==
  IF f.kind = "dir" THEN [exit |-> TRUE, file |-> f, events |-> <<>>]
  ELSE IF f.kind = "absent"
       THEN [exit |-> FALSE, file |-> JsonDump(<<>>), events |-> <<>>]
  ELSE IF f.kind = "json"
       THEN [exit |-> FALSE, file |-> JsonDump(f.events), events |-> f.events]
  ELSE [exit |-> FALSE, file |-> f, events |-> <<>>]

\* read_events_file: exit is sys.exit(1); file is the events file afterwards
\* (created when it was absent); events is self.events.
read_events_file(f) ==
  IF f.kind = "dir" THEN [exit |-> TRUE, file |-> f, events |-> <<>>]
  ELSE IF f.kind = "absent"
       THEN [exit |-> FALSE, file |-> JsonDump(<<>>), events |-> <<>>]
  ELSE IF f.kind = "json" THEN [exit |-> FALSE, file |-> f, events |-> f.events]
  ELSE [exit |-> FALSE, file |-> f, events |-> <<>>]

\* check_event_keys, were 'ISO' the only required key it looks for.
check_event_keys_OnlyISO(evs) ==
  \A i \in 1 .. Len(evs) : HasKey(evs[i], "ISO")

\* check_event_keys: every event has the REQUIRED_KEYS.
check_event_keys(evs) ==
  \A i \in 1 .. Len(evs) : \A k \in REQUIRED_KEYS : HasKey(evs[i], k)

\* ---------------------------------------------------------------- sorting
RECURSIVE InsertByIso(_, _)
InsertByIso(s, e) ==
  IF s = <<>> THEN <<e>>
  ELSE IF IsoLess(e.ISO, Head(s).ISO) THEN <<e>> \o s
  ELSE <<Head(s)>> \o InsertByIso(Tail(s), e)

\* sorted(self.events, key=lambda k: k['ISO']) (a stable sort).
RECURSIVE sort_events_list(_)
sort_events_list(evs) ==
  IF evs = <<>> THEN <<>>
  ELSE InsertByIso(sort_events_list(SubSeq(evs, 1, Len(evs) - 1)), evs[Len(evs)])

\* ------------------------------------------------------------- the window
\* set_min_max_datetimes, were max_datetime the start of the last day
\* (timedelta(days=num_days)) and not its end.
set_min_max_datetimes_StartOfLastDay(mn, mx, t, num_days) ==
  IF mn # Unset /\ mx # Unset
  THEN [overflow |-> FALSE, min_datetime |-> mn, max_datetime |-> mx]
  ELSE IF num_days >= 0
       THEN [overflow |-> ~Representable(PlusDays(StartOfToday(t), num_days)),
             min_datetime |-> t,
             max_datetime |-> PlusDays(StartOfToday(t), num_days)]
       ELSE [overflow |-> ~Representable(PlusDays(StartOfToday(t), num_days)),
             min_datetime |-> PlusDays(StartOfToday(t), num_days),
             max_datetime |-> t]

\* set_min_max_datetimes: the two attributes after the call (mn, mx are the
\* attributes before it, Unset when absent); overflow is the caught
\* ValueError/OverflowError, followed by sys.exit(1).
set_min_max_datetimes(mn, mx, t, num_days) ==
  IF mn # Unset /\ mx # Unset
  THEN [overflow |-> FALSE, min_datetime |-> mn, max_datetime |-> mx]
  ELSE IF num_days >= 0
       THEN [overflow |-> ~Representable(PlusDays(StartOfToday(t), num_days + 1)),
             min_datetime |-> t,
             max_datetime |-> PlusDays(StartOfToday(t), num_days + 1)]
       ELSE [overflow |-> ~Representable(PlusDays(StartOfToday(t), num_days)),
             min_datetime |-> PlusDays(StartOfToday(t), num_days),
             max_datetime |-> t]

\* ------------------------------------------------------ repeat expansion
\* add_repeat_event: the record appended to self.events.  The key
\* "occurrence" is not a key of the program's dictionary: it marks a record
\* as made here, so that it can be told from a stored record.
add_repeat_event(event_dict, new_datetime) ==
  WithKey(WithoutKey(WithKey(event_dict, "ISO", IsoFormat(new_datetime)), "repeat"),
          "occurrence", TRUE)

\* The while loop of generate_repeat_events, were its test
\* self.min_datetime <= date_to_check.
RECURSIVE RepeatLoop_FromLowerBound(_, _, _, _, _)
RepeatLoop_FromLowerBound(event_dict, date_to_check, event_repeats, mn, mx) ==
  IF ~Representable(date_to_check) THEN [occ |-> <<>>, crash |-> TRUE]
  ELSE IF date_to_check < mx
       THEN LET rest == RepeatLoop_FromLowerBound(event_dict,
                          PlusDays(date_to_check, event_repeats), event_repeats, mn, mx)
            IN [occ |-> (IF mn <= date_to_check
                         THEN <<add_repeat_event(event_dict, date_to_check)>>
                         ELSE <<>>) \o rest.occ,
                crash |-> rest.crash]
  ELSE [occ |-> <<>>, crash |-> FALSE]

\* The while loop of generate_repeat_events for one event: the records it
\* appends; crash is the OverflowError of a date_to_check past datetime.max
\* (or datetime.min), which nothing catches.
RECURSIVE RepeatLoop(_, _, _, _, _)
RepeatLoop(event_dict, date_to_check, event_repeats, mn, mx) ==
  IF ~Representable(date_to_check) THEN [occ |-> <<>>, crash |-> TRUE]
  ELSE IF date_to_check < mx
       THEN LET rest == RepeatLoop(event_dict, PlusDays(date_to_check, event_repeats),
                                   event_repeats, mn, mx)
            IN [occ |-> (IF mn < date_to_check
                         THEN <<add_repeat_event(event_dict, date_to_check)>>
                         ELSE <<>>) \o rest.occ,
                crash |-> rest.crash]
  ELSE [occ |-> <<>>, crash |-> FALSE]

\* The for loop of generate_repeat_events from event i on.  The loop also
\* visits the records it appended, which have no 'repeat' key.
RECURSIVE GenerateFrom(_, _, _, _)
GenerateFrom(evs, i, mn, mx) ==
  IF i > Len(evs) THEN [occ |-> <<>>, crash |-> FALSE]
  ELSE IF GetRepeat(evs[i]) = 0 THEN GenerateFrom(evs, i + 1, mn, mx)
  ELSE LET r == RepeatLoop(evs[i],
                           PlusDays(get_datetime_from_event_dict(evs[i]), GetRepeat(evs[i])),
                           GetRepeat(evs[i]), mn, mx)
       IN IF r.crash THEN r
          ELSE LET rest == GenerateFrom(evs, i + 1, mn, mx)
               IN [occ |-> r.occ \o rest.occ, crash |-> rest.crash]

generate_repeat_events(evs, mn, mx) == GenerateFrom(evs, 1, mn, mx)

\* ------------------------------------------------------------- truncation
\* The test of truncate_event_lists.
InWindow(event_dict, mn, mx) ==
  get_datetime_from_event_dict(event_dict) > mn
    /\ get_datetime_from_event_dict(event_dict) < mx

truncate_event_lists(evs, mn, mx) ==
  [truncated |-> SelectSeq(evs, LAMBDA e : InWindow(e, mn, mx)),
   excluded |-> SelectSeq(evs, LAMBDA e : ~InWindow(e, mn, mx))]

\* ------------------------------------------------------- the summary line
special_day_strings(num_days) ==
  CASE num_days = 0 -> " remaining today."
    [] num_days = 1 -> " between now and the end of tomorrow."
    [] num_days = 7 -> " in the coming week."
    [] num_days = 30 -> " in the coming month."
    [] num_days = 365 -> " in the coming year."
    [] num_days = 0 - 1 -> " in your diary from yesterday to now."
    [] OTHER -> IF num_days > 0
                THEN " in the next " \o ToString(num_days) \o " days."
                ELSE " in your diary from the previous "
                       \o ToString(0 - num_days) \o " days."

\* str_to_print of present_diary before the event strings.
SummaryLine(num_events, num_days) ==
  "You have " \o ToString(num_events) \o " event"
    \o (IF num_events \notin {0 - 1, 1} THEN "s" ELSE "")
    \o special_day_strings(num_days)

\* What present_diary prints: the summary line and the events under it.
NoDiary == [printed |-> FALSE, summary |-> "", events |-> <<>>]
Diary(evs, num_days) ==
  [printed |-> TRUE, summary |-> SummaryLine(Len(evs), num_days), events |-> evs]

\* ------------------------------------------- continuation of a repeat
\* The while loop of add_new_repeat_for_event_to_be_deleted_if_user_desires:
\* the first date not before mx, or an unrepresentable one (OverflowError).
RECURSIVE NextRepeatLoop(_, _, _)
NextRepeatLoop(next_repeat_datetime, event_repeats, mx) ==
  IF ~Representable(next_repeat_datetime) THEN next_repeat_datetime
  ELSE IF next_repeat_datetime < mx
       THEN NextRepeatLoop(PlusDays(next_repeat_datetime, event_repeats), event_repeats, mx)
  ELSE next_repeat_datetime

\* The next event of events_to_delete at or after i that repeats.
RECURSIVE NextRepeating(_, _)
NextRepeating(etd, i) ==
  IF i > Len(etd) THEN i
  ELSE IF GetRepeat(etd[i]) # 0 THEN i
  ELSE NextRepeating(etd, i + 1)

\* The for loop of add_new_repeat_... from event i up to its next prompt:
\* where the program stops (pc), at which event (idx) and with which
\* next_repeat_datetime (next).
ContinueFrom(etd, i, mx) ==
  LET j == NextRepeating(etd, i)
  IN IF j > Len(etd) THEN [pc |-> "del_confirm", idx |-> 0, next |-> Unset]
     ELSE LET d == NextRepeatLoop(
                     PlusDays(get_datetime_from_event_dict(etd[j]), GetRepeat(etd[j])),
                     GetRepeat(etd[j]), mx)
          IN IF Representable(d) THEN [pc |-> "del_continue", idx |-> j, next |-> d]
             ELSE [pc |-> "crash", idx |-> j, next |-> Unset]

\* ------------------------------------------------------------------ state
VARIABLES
  file,                 \* the events file (self.events_file_path)
  bak,                  \* the backup file (self.events_file_path + '.bak')
  pc,                   \* where the running process is; "idle": none runs
  option,               \* self.option: [name, arg]
  now,                  \* self.now
  events,               \* self.events
  events_to_delete,     \* self.events_to_delete
  min_datetime,         \* self.min_datetime
  max_datetime,         \* self.max_datetime
  add_title,            \* add_event: title
  add_date,             \* get_datetime_from_user: date
  new_event_dict,       \* add_event: new_event_dict
  del_idx,              \* add_new_repeat_...: index of event_dict in events_to_delete
  next_repeat_datetime, \* add_new_repeat_...: next_repeat_datetime
  stdout,               \* the messages printed, but for those of the prompts of add_event
  diary,                \* the diary present_diary printed
  exit_status,          \* the exit status of the process
  file0,                \* the events file when the process started
  bak0,                 \* the backup file when the process started
  loaded,               \* self.events as read_events_file left it
  repeat_events,        \* the records add_repeat_event appended
  expanded,             \* generate_repeat_events returned
  continuations,        \* the records add_new_repeat_... appended
  asked,                \* the prompts shown to the user
  confirmed,            \* the answer to the last y/n of add_event / delete_events
  typed_q,              \* the prompts of add_event the user answered with 'q'
  undo,                 \* when the process started, the backup file was the one a
                        \* delete_events that returned had left, as it had left it
  peer                  \* a second add-event process on the same files

vars == <<file, bak, pc, option, now, events, events_to_delete, min_datetime,
          max_datetime, add_title, add_date, new_event_dict, del_idx,
          next_repeat_datetime, stdout, diary, exit_status, file0, bak0, loaded,
          repeat_events, expanded, continuations, asked, confirmed, typed_q,
          undo, peer>>

\* Variables of the add-event, delete and print options, and of a start.
addVars == <<add_title, add_date, new_event_dict>>
delVars == <<events_to_delete, del_idx, next_repeat_datetime, continuations>>
printVars == <<diary, repeat_events, expanded>>
winVars == <<min_datetime, max_datetime>>
loadVars == <<option, now, file0, bak0, loaded, peer>>
startVars == <<loadVars, confirmed>>

NoEvent == [none |-> TRUE]
\* No second process.
NoPeer == [pc |-> "none", file0 |-> Absent, events |-> <<>>,
           new_event_dict |-> NoEvent, confirmed |-> "none", exit_status |-> Running]
NoOption == [name |-> "", arg |-> Str("")]

\* ------------------------------------------------------- the first stores
\* Records of the events files the model starts from: any time, with or
\* without a repeat interval.
PlainRecords ==
  {[title |-> "a", ISO |-> IsoFormat(d)] : d \in Datetimes}
    \cup {[title |-> "a", ISO |-> IsoFormat(d), repeat |-> r] :
            d \in Datetimes, r \in RepeatValues}

\* The same, with or without a location.
StoredRecords == PlainRecords \cup {WithKey(e, "location", "x") : e \in PlainRecords}

\* Records that lack a required key.
BrokenRecords == {[title |-> "a"], [ISO |-> IsoFormat(DATETIME_MIN)]}

EventLists(R, n) == UNION {[1 .. k -> R] : k \in 0 .. n}

\* Paths that are no JSON array of events.
OddFiles == {Absent, Directory, Garbage, EmptyFile}

\* Any events file of up to MaxInit records.
AnyFiles ==
  OddFiles \cup {JsonDoc(s, FALSE) : s \in EventLists(StoredRecords \cup BrokenRecords, MaxInit)}

\* The events files a sequence of processes starts from: up to one record.
FirstFiles ==
  OddFiles \cup {JsonDoc(s, FALSE) : s \in EventLists(PlainRecords \cup BrokenRecords, 1)}

\* A Diary object nothing has been done with.
FreshObject ==
  /\ events = <<>>
  /\ events_to_delete = <<>>
  /\ min_datetime = Unset
  /\ max_datetime = Unset
  /\ add_title = ""
  /\ add_date = Str("")
  /\ new_event_dict = NoEvent
  /\ del_idx = 0
  /\ next_repeat_datetime = Unset
  /\ stdout = {}
  /\ diary = NoDiary
  /\ exit_status = Running
  /\ loaded = <<>>
  /\ repeat_events = <<>>
  /\ expanded = FALSE
  /\ continuations = <<>>
  /\ asked = {}
  /\ confirmed = "none"
  /\ typed_q = {}
  /\ undo = FALSE
  /\ peer = NoPeer

\* No process runs, none has run.
Fresh == pc = "idle" /\ option = NoOption /\ now = Unset /\ FreshObject

Init == file \in FirstFiles /\ bak = Absent /\ file0 = file /\ bak0 = bak /\ Fresh

InitAny == file \in AnyFiles /\ bak = Absent /\ file0 = file /\ bak0 = bak /\ Fresh

\* ------------------------------------------------------------ construction
\* Diary.__init__ up to choose_and_execute_function: "exit" is the
\* sys.exit(1) of read_events_file, "crash" the exception of
\* check_event_keys, whose error message reads self.EVENTS_FILE, an
\* attribute the class does not have (AttributeError).
Construct(f) ==
  LET r == read_events_file(f)
  IN [status |-> IF r.exit THEN "exit"
                 ELSE IF ~check_event_keys(r.events) THEN "crash"
                 ELSE "ok",
      file |-> r.file, events |-> r.events]

\* A process starts when no other runs.
NoneRuns == pc = "idle"

\* The attributes __init__ sets.
Begin(opt, t, c) ==
  /\ option' = opt
  /\ file0' = file
  /\ bak0' = bak
  /\ file' = c.file
  /\ loaded' = c.events
  /\ now' = IF c.status = "ok" THEN t ELSE Unset
  /\ confirmed' = "none"
  /\ typed_q' = {}
  /\ UNCHANGED <<undo, peer>>

FreshAdd == add_title' = "" /\ add_date' = Str("") /\ new_event_dict' = NoEvent
FreshDel ==
  /\ events_to_delete' = <<>>
  /\ del_idx' = 0
  /\ next_repeat_datetime' = Unset
  /\ continuations' = <<>>
FreshPrint == diary' = NoDiary /\ repeat_events' = <<>> /\ expanded' = FALSE
FreshWin == min_datetime' = Unset /\ max_datetime' = Unset

\* The process ends with the exit status code.
Exit(code) == pc' = "done" /\ exit_status' = code

\* The process ends by an exception nothing catches.
Crash == Exit(1)

\* __init__ ended the process before the option's function was called:
\* read_events_file after logging its error, check_event_keys by the
\* exception, which logs nothing.
Aborted(c) ==
  /\ events' = c.events
  /\ stdout' = IF c.status = "exit" THEN {"is a directory. Aborting."} ELSE {}
  /\ asked' = {}
  /\ Exit(1)

\* ------------------------------------------------------------------ print
\* diary --print arg (or diary arg): __init__ and present_diary.
present_diary(t, arg) ==
  /\ NoneRuns
  /\ LET c == Construct(file)
         num_days == return_int_or_false_from_str(arg, FALSE)
         w == set_min_max_datetimes(Unset, Unset, t, num_days)
         g == generate_repeat_events(c.events, w.min_datetime, w.max_datetime)
         tr == truncate_event_lists(sort_events_list(c.events \o g.occ),
                                    w.min_datetime, w.max_datetime)
     IN /\ Begin([name |-> "print", arg |-> arg], t, c)
        /\ FreshAdd /\ FreshDel
        /\ UNCHANGED bak
        /\ IF c.status # "ok"
             THEN Aborted(c) /\ FreshWin /\ FreshPrint
           ELSE IF num_days = 0
             THEN /\ events' = c.events
                  /\ stdout' = IntMessage(arg, FALSE)
                  /\ asked' = {}
                  /\ FreshWin /\ FreshPrint
                  /\ Exit(0)
           ELSE IF w.overflow
             THEN /\ events' = c.events
                  /\ stdout' = {"Range of days is too large. Aborting."}
                  /\ asked' = {}
                  /\ FreshWin /\ FreshPrint
                  /\ Exit(1)
           ELSE /\ min_datetime' = w.min_datetime
                /\ max_datetime' = w.max_datetime
                /\ repeat_events' = g.occ
                /\ stdout' = {}
                /\ asked' = {}
                /\ IF g.crash
                     THEN /\ events' = c.events \o g.occ
                          /\ expanded' = FALSE
                          /\ diary' = NoDiary
                          /\ Crash
                     ELSE /\ events' = tr.truncated
                          /\ expanded' = TRUE
                          /\ diary' = Diary(tr.truncated, num_days)
                          /\ Exit(0)

\* ----------------------------------------------------------------- delete
\* diary --delete arg: __init__ and delete_events up to its first prompt.
delete_events(t, arg) ==
  /\ NoneRuns
  /\ LET c == Construct(file)
         num_days == return_int_or_false_from_str(arg, FALSE)
         w == set_min_max_datetimes(Unset, Unset, t, num_days)
         tr == truncate_event_lists(sort_events_list(c.events),
                                    w.min_datetime, w.max_datetime)
         cf == ContinueFrom(tr.truncated, 1, w.max_datetime)
     IN /\ Begin([name |-> "delete", arg |-> arg], t, c)
        /\ FreshAdd /\ FreshPrint
        /\ UNCHANGED bak
        /\ continuations' = <<>>
        /\ IF c.status # "ok"
             THEN Aborted(c) /\ FreshWin
                  /\ events_to_delete' = <<>> /\ del_idx' = 0
                  /\ next_repeat_datetime' = Unset
           ELSE IF num_days = 0
             THEN /\ events' = c.events
                  /\ stdout' = IntMessage(arg, FALSE)
                  /\ asked' = {}
                  /\ FreshWin
                  /\ events_to_delete' = <<>> /\ del_idx' = 0
                  /\ next_repeat_datetime' = Unset
                  /\ Exit(0)
           ELSE IF w.overflow
             THEN /\ events' = sort_events_list(c.events)
                  /\ stdout' = {"Range of days is too large. Aborting."}
                  /\ asked' = {}
                  /\ FreshWin
                  /\ events_to_delete' = <<>> /\ del_idx' = 0
                  /\ next_repeat_datetime' = Unset
                  /\ Exit(1)
           ELSE /\ min_datetime' = w.min_datetime
                /\ max_datetime' = w.max_datetime
                /\ events' = tr.excluded
                /\ events_to_delete' = tr.truncated
                /\ IF tr.truncated = <<>>
                     THEN /\ stdout' = {"No events to remove."}
                          /\ asked' = {}
                          /\ del_idx' = 0
                          /\ next_repeat_datetime' = Unset
                          /\ Exit(0)
                     ELSE /\ stdout' = {}
                          /\ del_idx' = cf.idx
                          /\ next_repeat_datetime' = cf.next
                          /\ IF cf.pc = "crash"
                               THEN asked' = {} /\ Crash
                               ELSE /\ asked' = {cf.pc}
                                    /\ pc' = cf.pc
                                    /\ exit_status' = Running

\* The answers to a y/n prompt: yes, no, anything else.
YesNo == {Str("y"), Str("n"), Str("x")}

\* The user answers 'Would you like it to continue repeating in the future
\* (y/n)?' for events_to_delete[del_idx]; the loop runs on to its next prompt.
DeleteContinue(user_input) ==
  /\ pc = "del_continue"
  /\ IF user_input.s \notin {"y", "n"}
       THEN UNCHANGED vars
       ELSE LET event_dict == events_to_delete[del_idx]
                new_event_dict_ == WithKey(event_dict, "ISO", IsoFormat(next_repeat_datetime))
                cf == ContinueFrom(events_to_delete, del_idx + 1, max_datetime)
            IN /\ events' = IF user_input.s = "y" THEN Append(events, new_event_dict_)
                            ELSE events
               /\ continuations' = IF user_input.s = "y"
                                   THEN Append(continuations, new_event_dict_)
                                   ELSE continuations
               /\ del_idx' = cf.idx
               /\ next_repeat_datetime' = cf.next
               /\ IF cf.pc = "crash"
                    THEN UNCHANGED asked /\ Crash
                    ELSE /\ asked' = asked \cup {cf.pc}
                         /\ pc' = cf.pc
                         /\ UNCHANGED exit_status
               /\ UNCHANGED <<file, bak, events_to_delete, stdout>>
               /\ UNCHANGED <<typed_q, undo, startVars, winVars, addVars, printVars>>

\* user_wants_removal, were any answer but 'other' a yes.
DeleteConfirm_NoIsYes(user_input) ==
  /\ pc = "del_confirm"
  /\ IF user_input.s \notin {"y", "n"}
       THEN UNCHANGED vars
       ELSE /\ pc' = "backup" /\ UNCHANGED exit_status
            /\ confirmed' = IF user_input.s = "y" THEN "yes" ELSE "no"
            /\ UNCHANGED <<file, bak, events, stdout, asked>>
            /\ UNCHANGED <<typed_q, undo, loadVars, winVars, addVars, printVars, delVars>>

\* The user answers 'Confirm removal (y/n)' of user_wants_removal.
DeleteConfirm(user_input) ==
  /\ pc = "del_confirm"
  /\ IF user_input.s \notin {"y", "n"}
       THEN UNCHANGED vars
       ELSE /\ IF user_input.s = "y"
                 THEN pc' = "backup" /\ UNCHANGED exit_status
                 ELSE Exit(0)
            /\ confirmed' = IF user_input.s = "y" THEN "yes" ELSE "no"
            /\ UNCHANGED <<file, bak, events, stdout, asked>>
            /\ UNCHANGED <<typed_q, undo, loadVars, winVars, addVars, printVars, delVars>>

\* ----------------------------------------------------------------- commit
\* add_event, were it to append the new event to the events it reads anew
\* from the events file it has just copied.
backup_events_file_Reloads ==
  /\ pc = "backup"
  /\ IF file.kind \in {"absent", "dir"}
       THEN Crash /\ UNCHANGED <<bak, events>>
       ELSE /\ bak' = file
            /\ events' = IF option.name = "add-event"
                         THEN Append(read_events_file(file).events, new_event_dict)
                         ELSE events
            /\ pc' = "write_open"
            /\ UNCHANGED exit_status
  /\ UNCHANGED <<file, stdout, asked>>
  /\ UNCHANGED <<typed_q, undo, startVars, winVars, addVars, printVars, delVars>>

\* backup_events_file, were it to copy nothing.
backup_events_file_NoCopy ==
  /\ pc = "backup"
  /\ events' = IF option.name = "add-event"
               THEN Append(events, new_event_dict) ELSE events
  /\ pc' = "write_open"
  /\ UNCHANGED <<file, bak, stdout, asked, exit_status>>
  /\ UNCHANGED <<typed_q, undo, startVars, winVars, addVars, printVars, delVars>>

\* backup_events_file; in add_event also self.events.append(new_event_dict).
backup_events_file ==
  /\ pc = "backup"
  /\ IF file.kind \in {"absent", "dir"}
       THEN Crash /\ UNCHANGED <<bak, events>>
       ELSE /\ bak' = file
            /\ events' = IF option.name = "add-event"
                         THEN Append(events, new_event_dict) ELSE events
            /\ pc' = "write_open"
            /\ UNCHANGED exit_status
  /\ UNCHANGED <<file, stdout, asked>>
  /\ UNCHANGED <<typed_q, undo, startVars, winVars, addVars, printVars, delVars>>

\* write_to_events_file: open(self.events_file_path, 'w') empties the file.
WriteOpen ==
  /\ pc = "write_open"
  /\ file' = EmptyFile
  /\ pc' = "write_dump"
  /\ UNCHANGED <<bak, events, stdout, asked, exit_status>>
  /\ UNCHANGED <<typed_q, undo, startVars, winVars, addVars, printVars, delVars>>

\* write_to_events_file, were it to sort self.events before the dump.
WriteDump_Sorted ==
  /\ pc = "write_dump"
  /\ file' = JsonDump(sort_events_list(events))
  /\ IF option.name = "add-event"
       THEN pc' = "remove_backup" /\ UNCHANGED <<exit_status, stdout>>
       ELSE Exit(0) /\ stdout' = stdout \cup {"Events deleted."}
  /\ UNCHANGED <<bak, events, asked>>
  /\ UNCHANGED <<typed_q, undo, startVars, winVars, addVars, printVars, delVars>>

\* What the events file holds after json.dump and the close: the array, when
\* the file is still as open(path, 'w') left it.  When another process has
\* written to it since, the text is written over what is there from the
\* start of the file: the array, or the array and the rest of a longer text
\* after it, which is no JSON document.
Dumped(f, evs) ==
  IF f.kind = "empty" THEN {JsonDump(evs)} ELSE {JsonDump(evs), Garbage}

\* write_to_events_file: json.dump and the close of the file; delete_events
\* then prints its message and returns.
WriteDump ==
  /\ pc = "write_dump"
  /\ file' \in Dumped(file, events)
  /\ IF option.name = "add-event"
       THEN pc' = "remove_backup" /\ UNCHANGED <<exit_status, stdout>>
       ELSE Exit(0) /\ stdout' = stdout \cup {"Events deleted."}
  /\ UNCHANGED <<bak, events, asked>>
  /\ UNCHANGED <<typed_q, undo, startVars, winVars, addVars, printVars, delVars>>

\* write_to_events_file when json.dump or the write behind it raises, or the
\* process is killed, after open(self.events_file_path, 'w'): nothing more
\* is written and the process ends.
WriteFails ==
  /\ pc = "write_dump"
  /\ Crash
  /\ UNCHANGED <<file, bak, events, stdout, asked>>
  /\ UNCHANGED <<typed_q, undo, startVars, winVars, addVars, printVars, delVars>>

\* remove_backup_events_file, the last statement of add_event; os.remove
\* raises FileNotFoundError when the backup file is not there.
remove_backup_events_file ==
  /\ pc = "remove_backup"
  /\ IF bak.kind = "absent"
       THEN Crash /\ UNCHANGED bak
       ELSE bak' = Absent /\ Exit(0)
  /\ UNCHANGED <<file, events, stdout, asked>>
  /\ UNCHANGED <<typed_q, undo, startVars, winVars, addVars, printVars, delVars>>

\* -------------------------------------------------------------- add-event
\* diary --add-event: __init__ and add_event up to its first prompt.
add_event(t) ==
  /\ NoneRuns
  /\ LET c == Construct(file)
     IN /\ Len(c.events) < MaxEvents
        /\ Begin([name |-> "add-event", arg |-> Str("")], t, c)
        /\ FreshAdd /\ FreshDel /\ FreshPrint /\ FreshWin
        /\ UNCHANGED bak
        /\ IF c.status # "ok"
             THEN Aborted(c)
             ELSE /\ events' = c.events
                  /\ stdout' = {}
                  /\ asked' = {"add_title"}
                  /\ pc' = "add_title"
                  /\ exit_status' = Running

\* What the user types for the title, the date, the time, the location and
\* the number of days of a repeat.
TitleInputs == {Str(""), Str("q")}
DateInputs == {Str(""), Str("q"), Str("bad"), Typed(MaxDay - 1)}
TimeInputs == {Str(""), Str("q"), Str("bad")} \cup {Typed(k) : k \in 0 .. (TicksPerDay - 1)}
LocationInputs == {Str(""), Str("x")}
RepeatInputs ==
  {Str(""), Str("q"), Str(NotAnInt), Typed(0), Typed(0 - 1)}
    \cup {Typed(r) : r \in RepeatValues}

\* get_datetime_object_from_date_and_time: strptime of the two strings;
\* Unset stands for the False of a ValueError.
get_datetime_object_from_date_and_time(date, time) ==
  IF date.s = "int" /\ time.s = "int" THEN date.n * TicksPerDay + time.n ELSE Unset

\* get_non_empty_input('Event title:').
AddTitle(user_input) ==
  /\ pc = "add_title"
  /\ IF user_input.s = ""
       THEN UNCHANGED vars
       ELSE /\ add_title' = user_input.s
            /\ typed_q' = IF user_input.s = "q" THEN typed_q \cup {"add_title"} ELSE typed_q
            /\ pc' = "add_date"
            /\ asked' = asked \cup {"add_date"}
            /\ UNCHANGED <<file, bak, events, stdout, exit_status, add_date, new_event_dict>>
            /\ UNCHANGED <<undo, startVars, winVars, printVars, delVars>>

\* get_datetime_from_user, were it not to test the date for 'q'.
AddDate_NoQuit(user_input) ==
  /\ pc = "add_date"
  /\ IF user_input.s = ""
       THEN UNCHANGED vars
       ELSE /\ add_date' = user_input
            /\ pc' = "add_time"
            /\ asked' = asked \cup {"add_time"}
            /\ UNCHANGED exit_status
            /\ typed_q' = IF user_input.s = "q" THEN typed_q \cup {"add_date"} ELSE typed_q
            /\ UNCHANGED <<file, bak, events, stdout, add_title, new_event_dict>>
            /\ UNCHANGED <<undo, startVars, winVars, printVars, delVars>>

\* get_datetime_from_user: the date.
AddDate(user_input) ==
  /\ pc = "add_date"
  /\ IF user_input.s = ""
       THEN UNCHANGED vars
       ELSE /\ IF user_input.s = "q"
                 THEN Exit(0) /\ UNCHANGED <<add_date, asked>>
                 ELSE /\ add_date' = user_input
                      /\ pc' = "add_time"
                      /\ asked' = asked \cup {"add_time"}
                      /\ UNCHANGED exit_status
            /\ typed_q' = IF user_input.s = "q" THEN typed_q \cup {"add_date"} ELSE typed_q
            /\ UNCHANGED <<file, bak, events, stdout, add_title, new_event_dict>>
            /\ UNCHANGED <<undo, startVars, winVars, printVars, delVars>>

\* get_datetime_from_user: the time; then new_event_dict of add_event.
AddTime(user_input) ==
  /\ pc = "add_time"
  /\ IF user_input.s = ""
       THEN UNCHANGED vars
       ELSE LET new_datetime == get_datetime_object_from_date_and_time(add_date, user_input)
            IN /\ IF user_input.s = "q"
                    THEN Exit(0) /\ UNCHANGED <<new_event_dict, asked, stdout>>
                  ELSE IF new_datetime = Unset
                    THEN /\ pc' = "add_date"
                         /\ UNCHANGED <<new_event_dict, asked, exit_status, stdout>>
                  ELSE /\ new_event_dict' =
                            [title |-> add_title, ISO |-> IsoFormat(new_datetime)]
                       /\ pc' = "add_location"
                       /\ asked' = asked \cup {"add_location"}
                       /\ UNCHANGED <<exit_status, stdout>>
               /\ typed_q' = IF user_input.s = "q" THEN typed_q \cup {"add_time"}
                             ELSE typed_q
               /\ UNCHANGED <<file, bak, events, add_title, add_date>>
               /\ UNCHANGED <<undo, startVars, winVars, printVars, delVars>>

\* input('Location (Optional): ').
AddLocation(user_input) ==
  /\ pc = "add_location"
  /\ new_event_dict' = IF user_input.s # ""
                       THEN WithKey(new_event_dict, "location", user_input.s)
                       ELSE new_event_dict
  /\ pc' = "add_repeats"
  /\ asked' = asked \cup {"add_repeats"}
  /\ UNCHANGED <<file, bak, events, stdout, exit_status, add_title, add_date>>
  /\ UNCHANGED <<typed_q, undo, startVars, winVars, printVars, delVars>>

\* get_bool_from_yn_input('Event repeats (y/n)?').
AddRepeats(user_input) ==
  /\ pc = "add_repeats"
  /\ IF user_input.s \notin {"y", "n"}
       THEN UNCHANGED vars
       ELSE /\ pc' = IF user_input.s = "y" THEN "add_repeat_days" ELSE "add_confirm"
            /\ asked' = asked \cup {IF user_input.s = "y" THEN "add_repeat_days"
                                    ELSE "add_confirm"}
            /\ UNCHANGED <<file, bak, events, stdout, exit_status>>
            /\ UNCHANGED <<typed_q, undo, startVars, winVars, printVars, delVars, addVars>>

\* add_repeat_key_value: one turn of its loop.
add_repeat_key_value(user_input) ==
  /\ pc = "add_repeat_days"
  /\ IF user_input.s = ""
       THEN UNCHANGED vars
       ELSE LET repeat_after == return_int_or_false_from_str(user_input, TRUE)
            IN /\ IF user_input.s = "q"
                    THEN /\ pc' = "add_confirm"
                         /\ asked' = asked \cup {"add_confirm"}
                         /\ stdout' = stdout \cup {"No repeat key added."}
                         /\ typed_q' = typed_q \cup {"add_repeat_days"}
                         /\ UNCHANGED new_event_dict
                  ELSE IF repeat_after = 0
                    THEN UNCHANGED <<pc, asked, new_event_dict, stdout, typed_q>>
                  ELSE /\ new_event_dict' = WithKey(new_event_dict, "repeat", repeat_after)
                       /\ pc' = "add_confirm"
                       /\ asked' = asked \cup {"add_confirm"}
                       /\ UNCHANGED <<stdout, typed_q>>
               /\ UNCHANGED <<file, bak, events, exit_status, add_title, add_date>>
               /\ UNCHANGED <<undo, startVars, winVars, printVars, delVars>>

\* user_wants_to_add_event: the answer to 'Would you like to add this event
\* to the diary (y/n)?'.
user_wants_to_add_event(user_input) ==
  /\ pc = "add_confirm"
  /\ IF user_input.s \notin {"y", "n"}
       THEN UNCHANGED vars
       ELSE /\ IF user_input.s = "y"
                 THEN pc' = "backup" /\ UNCHANGED exit_status
                 ELSE Exit(0)
            /\ confirmed' = IF user_input.s = "y" THEN "yes" ELSE "no"
            /\ UNCHANGED <<file, bak, events, stdout, asked>>
            /\ UNCHANGED <<typed_q, undo, loadVars, winVars, printVars, delVars, addVars>>

\* ------------------------------------------------------ the other options
\* __init__ and a function that reads self.events at most.
Static(t, name) ==
  /\ NoneRuns
  /\ LET c == Construct(file)
     IN /\ Begin([name |-> name, arg |-> Str("")], t, c)
        /\ FreshAdd /\ FreshDel /\ FreshPrint /\ FreshWin
        /\ UNCHANGED bak
        /\ IF c.status # "ok"
             THEN Aborted(c)
             ELSE /\ events' = IF name = "save-diary" THEN sort_events_list(c.events)
                               ELSE c.events
                  /\ stdout' = {name}
                  /\ asked' = {}
                  /\ Exit(0)

\* save_diary: the text file it writes is not part of the state.
save_diary(t) == Static(t, "save-diary")

print_usage(t) == Static(t, "help")

print_version(t) == Static(t, "version")

\* The process is gone; the two files stay.
ProcessExit ==
  /\ pc = "done"
  /\ pc' = "idle"
  /\ option' = NoOption
  /\ now' = Unset
  /\ events' = <<>>
  /\ stdout' = {}
  /\ exit_status' = Running
  /\ loaded' = <<>>
  /\ asked' = {}
  /\ confirmed' = "none"
  /\ FreshAdd /\ FreshDel /\ FreshPrint /\ FreshWin
  /\ file0' = file
  /\ bak0' = bak
  /\ typed_q' = {}
  /\ undo' = IF option.name = "delete" /\ confirmed = "yes" /\ exit_status = 0
             THEN TRUE
             ELSE undo /\ bak = bak0
  /\ UNCHANGED <<file, bak, peer>>

\* ------------------------------------------- a second add-event process
\* The variables of the first process.
mainVars == <<pc, option, now, events, events_to_delete, min_datetime,
              max_datetime, add_title, add_date, new_event_dict, del_idx,
              next_repeat_datetime, stdout, diary, exit_status, file0, bak0, loaded,
              repeat_events, expanded, continuations, asked, confirmed, typed_q, undo>>

\* The events the user of the second process may enter.
PeerRecords == {[title |-> "b", ISO |-> IsoFormat(MaxDay * TicksPerDay)],
                [title |-> "b", ISO |-> IsoFormat(MaxDay * TicksPerDay), repeat |-> 1]}

\* diary --add-event of the second process: __init__.
PeerStart ==
  /\ peer.pc = "none"
  /\ LET c == Construct(file)
     IN /\ file' = c.file
        /\ peer' = [peer EXCEPT !.file0 = file, !.events = c.events,
                                 !.pc = IF c.status = "ok" THEN "input" ELSE "done",
                                 !.exit_status = IF c.status = "ok" THEN Running ELSE 1]
  /\ UNCHANGED <<bak, mainVars>>

\* add_event of the second process from its first prompt to the answer to
\* 'Would you like to add this event to the diary (y/n)?'.
PeerPrompts(e, user_input) ==
  /\ peer.pc = "input"
  /\ peer' = [peer EXCEPT !.new_event_dict = e,
                           !.confirmed = IF user_input.s = "y" THEN "yes" ELSE "no",
                           !.pc = IF user_input.s = "y" THEN "backup" ELSE "done",
                           !.exit_status = IF user_input.s = "y" THEN Running ELSE 0]
  /\ UNCHANGED <<file, bak, mainVars>>

\* backup_events_file and self.events.append of the second process.
PeerBackup ==
  /\ peer.pc = "backup"
  /\ IF file.kind \in {"absent", "dir"}
       THEN peer' = [peer EXCEPT !.pc = "done", !.exit_status = 1] /\ UNCHANGED bak
       ELSE /\ bak' = file
            /\ peer' = [peer EXCEPT !.events = Append(peer.events, peer.new_event_dict),
                                     !.pc = "write_open"]
  /\ UNCHANGED <<file, mainVars>>

\* write_to_events_file of the second process: the open.
PeerWriteOpen ==
  /\ peer.pc = "write_open"
  /\ file' = EmptyFile
  /\ peer' = [peer EXCEPT !.pc = "write_dump"]
  /\ UNCHANGED <<bak, mainVars>>

\* write_to_events_file of the second process: json.dump and the close.
PeerWriteDump ==
  /\ peer.pc = "write_dump"
  /\ file' \in Dumped(file, peer.events)
  /\ peer' = [peer EXCEPT !.pc = "remove_backup"]
  /\ UNCHANGED <<bak, mainVars>>

\* remove_backup_events_file of the second process.
PeerRemoveBackup ==
  /\ peer.pc = "remove_backup"
  /\ IF bak.kind = "absent"
       THEN peer' = [peer EXCEPT !.pc = "done", !.exit_status = 1] /\ UNCHANGED bak
       ELSE bak' = Absent /\ peer' = [peer EXCEPT !.pc = "done", !.exit_status = 0]
  /\ UNCHANGED <<file, mainVars>>

\* ------------------------------------------------------- specifications
\* Parameters of --print and --delete.
DayArgs == {Typed(n) : n \in NumDaysValues} \cup {Str(NotAnInt)}

\* The steps of a running process.
Step ==
  \/ \E user_input \in YesNo : DeleteContinue(user_input)
  \/ \E user_input \in YesNo : DeleteConfirm(user_input)
  \/ backup_events_file
  \/ WriteOpen
  \/ WriteDump
  \/ WriteFails

AddStep ==
  \/ \E user_input \in TitleInputs : AddTitle(user_input)
  \/ \E user_input \in DateInputs : AddDate(user_input)
  \/ \E user_input \in TimeInputs : AddTime(user_input)
  \/ \E user_input \in LocationInputs : AddLocation(user_input)
  \/ \E user_input \in YesNo : AddRepeats(user_input)
  \/ \E user_input \in RepeatInputs : add_repeat_key_value(user_input)
  \/ \E user_input \in YesNo : user_wants_to_add_event(user_input)
  \/ remove_backup_events_file

\* Processes one after the other, of any option.
Next ==
  \/ \E t \in NowValues, arg \in DayArgs : present_diary(t, arg)
  \/ \E t \in NowValues, arg \in DayArgs : delete_events(t, arg)
  \/ \E t \in NowValues : add_event(t)
  \/ \E t \in NowValues : save_diary(t)
  \/ \E t \in NowValues : print_usage(t)
  \/ \E t \in NowValues : print_version(t)
  \/ Step
  \/ AddStep
  \/ ProcessExit

Spec == Init /\ [][Next]_vars

\* One process, print or delete, on any events file.
NextOnce ==
  \/ \E t \in NowValues, arg \in DayArgs : present_diary(t, arg)
  \/ \E t \in NowValues, arg \in DayArgs : delete_events(t, arg)
  \/ Step

SpecOnce == InitAny /\ [][NextOnce]_vars

\* Processes one after the other on an events file that began empty.
InitEmpty ==
  file \in {Absent, JsonDoc(<<>>, FALSE)} /\ bak = Absent /\ file0 = file /\ bak0 = bak
    /\ Fresh

SpecEmpty == InitEmpty /\ [][Next]_vars

\* Two add-event processes on the same events file, their steps in any order.
TwoFiles ==
  {Absent, JsonDoc(<<>>, FALSE),
   JsonDoc(<<[title |-> "a", ISO |-> IsoFormat(DATETIME_MIN)]>>, FALSE)}

InitTwo == file \in TwoFiles /\ bak = Absent /\ file0 = file /\ bak0 = bak /\ Fresh

NextTwo ==
  \/ \E t \in NowValues : add_event(t)
  \/ AddStep
  \/ backup_events_file
  \/ WriteOpen
  \/ WriteDump
  \/ PeerStart
  \/ \E e \in PeerRecords, user_input \in {Str("y"), Str("n")} : PeerPrompts(e, user_input)
  \/ PeerBackup
  \/ PeerWriteOpen
  \/ PeerWriteDump
  \/ PeerRemoveBackup

SpecTwo == InitTwo /\ [][NextTwo]_vars

\* ------------------------------------------ set_min_max_datetimes alone
\* Day counts passed to set_min_max_datetimes, 0 and overflowing ones included.
WindowDays == (0 - MaxDay - 1) .. (MaxDay + 1)

InitWindow ==
  /\ file = JsonDump(<<>>) /\ bak = Absent /\ file0 = file /\ bak0 = bak
  /\ pc = "window"
  /\ option \in {[name |-> "print", arg |-> Typed(n)] : n \in WindowDays}
  /\ now \in Datetimes
  /\ FreshObject

\* self.set_min_max_datetimes(num_days=num_days) on an object of any now.
SetWindow ==
  /\ pc = "window"
  /\ LET w == set_min_max_datetimes(min_datetime, max_datetime, now, option.arg.n)
     IN IF w.overflow
          THEN /\ stdout' = {"Range of days is too large. Aborting."}
               /\ Exit(1)
               /\ UNCHANGED winVars
          ELSE /\ min_datetime' = w.min_datetime
               /\ max_datetime' = w.max_datetime
               /\ Exit(0)
               /\ UNCHANGED stdout
  /\ UNCHANGED <<file, bak, events, asked>>
  /\ UNCHANGED <<typed_q, undo, startVars, addVars, printVars, delVars>>

NextWindow == SetWindow

SpecWindow == InitWindow /\ [][NextWindow]_vars

\* ================================================================ claims
\* Midnight of the day of t, and the window of the specification for a day
\* count n: (now, midnight + n + 1 days) or (midnight + n days, now).
Midnight(t) == t - (t % TicksPerDay)
Lower(t, n) == IF n >= 0 THEN t ELSE Midnight(t) + n * TicksPerDay
Upper(t, n) == IF n >= 0 THEN Midnight(t) + (n + 1) * TicksPerDay ELSE t

\* The timestamp of a record, and whether it lies strictly inside (lo, hi).
Timestamp(e) == e.ISO[1] * TicksPerDay + e.ISO[2]
Inside(e, lo, hi) == lo < Timestamp(e) /\ Timestamp(e) < hi

\* The records of s inside / outside (lo, hi), in the order of s.
Within(s, lo, hi) == SelectSeq(s, LAMBDA e : Inside(e, lo, hi))
Without(s, lo, hi) == SelectSeq(s, LAMBDA e : ~Inside(e, lo, hi))

Range(s) == {s[i] : i \in 1 .. Len(s)}
Count(s, x) == Cardinality({i \in 1 .. Len(s) : s[i] = x})
\* s and t hold the same records, each as many times.
SameBag(s, t) ==
  /\ Len(s) = Len(t)
  /\ \A x \in Range(s) \cup Range(t) : Count(s, x) = Count(t, x)

Ascending(s) == \A i, j \in 1 .. Len(s) : i < j => Timestamp(s[i]) <= Timestamp(s[j])

\* The day count of the running process, its events file as __init__ left
\* it, and the events present_diary displayed.
NumDays == option.arg.n
FileLoaded == read_events_file(file0).file
Displayed == IF diary.printed THEN diary.events ELSE <<>>
IsOccurrence(e) == HasKey(e, "occurrence")

\* C1: whenever set_min_max_datetimes has set the window for a day count n:
\* if n >= 0, min_datetime = now and max_datetime = midnight(now) + (n + 1)
\* days; if n < 0, max_datetime = now and min_datetime = midnight(now) + n
\* days.  It sets the window unless that bound is no datetime, and then the
\* process exits with status 1.
C1_WindowBounds ==
  /\ (min_datetime # Unset \/ max_datetime # Unset) =>
       IF NumDays >= 0
       THEN min_datetime = now
              /\ max_datetime = Midnight(now) + (NumDays + 1) * TicksPerDay
       ELSE max_datetime = now
              /\ min_datetime = Midnight(now) + NumDays * TicksPerDay
  /\ pc = "done" =>
       IF Representable(IF NumDays >= 0 THEN Upper(now, NumDays) ELSE Lower(now, NumDays))
       THEN min_datetime # Unset /\ max_datetime # Unset /\ exit_status = 0
       ELSE min_datetime = Unset /\ max_datetime = Unset /\ exit_status = 1

\* C1 witness: the window was set for the day count 0 at a time past midnight.
C1_Witness ==
  pc = "done" /\ NumDays = 0 /\ now # Midnight(now) /\ max_datetime # Unset

\* C2: after a print that returned, the events displayed are exactly the
\* records of the working set (the stored records and the occurrences made)
\* strictly inside the window of the day count, in ascending order.
C2_PresentShowsWindow ==
  (pc = "done" /\ option.name = "print" /\ option.arg.s = "int" /\ exit_status = 0) =>
    /\ SameBag(Displayed,
               Within(loaded \o repeat_events, Lower(now, NumDays), Upper(now, NumDays)))
    /\ Ascending(Displayed)

\* The statement of C2 for the day counts other than 0.
PresentShowsWindowButToday ==
  (pc = "done" /\ option.name = "print" /\ option.arg.s = "int" /\ exit_status = 0
     /\ NumDays # 0) =>
    /\ diary.printed
    /\ SameBag(Displayed,
               Within(loaded \o repeat_events, Lower(now, NumDays), Upper(now, NumDays)))
    /\ Ascending(Displayed)

\* C3: in a delete that got past its day count, events_to_delete is exactly
\* the stored records strictly inside the window of the day count, none of
\* them an occurrence, and every stored record outside the window is still
\* in the events file the delete wrote.
C3_DeleteCandidates ==
  (option.name = "delete" /\ option.arg.s = "int"
     /\ (pc \in {"del_continue", "del_confirm", "backup", "write_open", "write_dump"}
           \/ (pc = "done" /\ exit_status = 0))) =>
    /\ SameBag(events_to_delete, Within(loaded, Lower(now, NumDays), Upper(now, NumDays)))
    /\ \A i \in 1 .. Len(events_to_delete) : ~IsOccurrence(events_to_delete[i])
    /\ (pc = "done" /\ confirmed = "yes") =>
         \A e \in Range(Without(loaded, Lower(now, NumDays), Upper(now, NumDays))) :
           Count(file.events, e) >= Count(loaded, e)

\* The statement of C3 for the day counts other than 0.
DeleteCandidatesButToday ==
  (option.name = "delete" /\ option.arg.s = "int" /\ NumDays # 0
     /\ (pc \in {"del_continue", "del_confirm", "backup", "write_open", "write_dump"}
           \/ (pc = "done" /\ exit_status = 0))) =>
    /\ SameBag(events_to_delete, Within(loaded, Lower(now, NumDays), Upper(now, NumDays)))
    /\ \A i \in 1 .. Len(events_to_delete) : ~IsOccurrence(events_to_delete[i])
    /\ (pc = "done" /\ confirmed = "yes") =>
         \A e \in Range(Without(loaded, Lower(now, NumDays), Upper(now, NumDays))) :
           Count(file.events, e) >= Count(loaded, e)

\* C4 as stated: in a delete, while events_to_delete is empty or the user has
\* not answered yes to 'Confirm removal', the events file and the backup
\* file are as they were when the process started.
C4_AsBeforeTheProcess ==
  (option.name = "delete" /\ (events_to_delete = <<>> \/ confirmed # "yes")) =>
    file = file0 /\ bak = bak0

\* C4 (amended): in a delete, while events_to_delete is empty or the user has
\* not answered yes to 'Confirm removal', the backup file is as it was when
\* the process started and the events file is as __init__ left it (as it
\* was, or created with an empty array when there was none); with an empty
\* events_to_delete no prompt was shown; and after the answer no the process
\* has ended with status 0.
C4_DeleteWritesOnlyOnYes ==
  option.name = "delete" =>
    /\ (events_to_delete = <<>> \/ confirmed # "yes") => file = FileLoaded /\ bak = bak0
    /\ events_to_delete = <<>> => asked = {}
    /\ confirmed = "no" => pc = "done" /\ exit_status = 0

\* C4 witness: the user accepted a continuation, then answered no.
C4_Witness ==
  option.name = "delete" /\ confirmed = "no" /\ continuations # <<>>
    /\ events # Without(loaded, min_datetime, max_datetime)

\* C5: in a delete, once the events file differs from what __init__ read the
\* backup file holds what __init__ read (the copy precedes the open); after
\* the confirmed delete returned the events file holds exactly the stored records
\* outside the window and the continuations accepted, and the backup file is
\* the events file as the process found it.
C5_DeleteCommit ==
  option.name = "delete" =>
    /\ file # FileLoaded => bak = FileLoaded
    /\ (pc = "done" /\ confirmed = "yes" /\ exit_status = 0) =>
         /\ file.kind = "json"
         /\ SameBag(file.events,
                    Without(loaded, Lower(now, NumDays), Upper(now, NumDays))
                      \o continuations)
         /\ bak = file0

\* C5 witness: a confirmed delete that kept a stored record and a
\* continuation, and replaced an older backup.
C5_Witness ==
  /\ option.name = "delete" /\ pc = "done" /\ confirmed = "yes" /\ exit_status = 0
  /\ continuations # <<>>
  /\ Without(loaded, Lower(now, NumDays), Upper(now, NumDays)) # <<>>
  /\ bak0 # Absent /\ bak0 # file0

\* C6: after a confirmed add-event returned the events file holds the records
\* __init__ read, in their order, followed by the new record, and there is
\* no backup file.
C6_AddCommit ==
  (option.name = "add-event" /\ pc = "done" /\ confirmed = "yes" /\ exit_status = 0) =>
    /\ file.kind = "json"
    /\ file.events = loaded \o <<new_event_dict>>
    /\ bak = Absent

\* C6 witness: a confirmed add of a record earlier than the one stored.
C6_Witness ==
  /\ option.name = "add-event" /\ pc = "done" /\ confirmed = "yes" /\ exit_status = 0
  /\ Len(loaded) = 1
  /\ Timestamp(new_event_dict) < Timestamp(loaded[1])

\* C7: a print with the day count 0 that returned has set the window
\* (now, midnight(now) + 1 day) and printed 'You have N event(s) remaining
\* today.' with the events inside that window.
C7_PresentToday ==
  (pc = "done" /\ option = [name |-> "print", arg |-> Typed(0)] /\ exit_status = 0) =>
    /\ diary.printed
    /\ min_datetime = now /\ max_datetime = Midnight(now) + TicksPerDay
    /\ diary.summary = "You have " \o ToString(Len(diary.events))
                         \o (IF Len(diary.events) = 1 THEN " event" ELSE " events")
                         \o " remaining today."
    /\ SameBag(diary.events,
               Within(loaded \o repeat_events, now, Midnight(now) + TicksPerDay))

\* C8: a delete with the day count 0 that returned has either printed 'No
\* events to remove.', there being no stored event between now and the end
\* of today, or asked the user to confirm the removal of exactly those.
C8_DeleteToday ==
  (pc = "done" /\ option = [name |-> "delete", arg |-> Typed(0)] /\ exit_status = 0) =>
    \/ /\ "No events to remove." \in stdout
       /\ Within(loaded, now, Midnight(now) + TicksPerDay) = <<>>
    \/ /\ "del_confirm" \in asked
       /\ SameBag(events_to_delete, Within(loaded, now, Midnight(now) + TicksPerDay))

\* The copy of e at its k-th repeat: its date is T + k * R days, it has no
\* 'repeat' key, its other keys are those of e.
Occurrence(e, k) ==
  [x \in DOMAIN e \ {"repeat"} |->
     IF x = "ISO"
     THEN <<(Timestamp(e) + k * e.repeat * TicksPerDay) \div TicksPerDay,
            (Timestamp(e) + k * e.repeat * TicksPerDay) % TicksPerDay>>
     ELSE e[x]]

\* The (event, k) pairs with k >= 1 and T + k * R strictly inside the window.
Repeats ==
  {p \in (1 .. Len(loaded)) \X (1 .. (DATETIME_MAX + 1)) :
     /\ HasKey(loaded[p[1]], "repeat")
     /\ loaded[p[1]].repeat >= 1
     /\ min_datetime < Timestamp(loaded[p[1]]) + p[2] * loaded[p[1]].repeat * TicksPerDay
     /\ Timestamp(loaded[p[1]]) + p[2] * loaded[p[1]].repeat * TicksPerDay < max_datetime}

\* The records add_repeat_event appended, less the mark of the model.
Appended == [i \in 1 .. Len(repeat_events) |-> WithoutKey(repeat_events[i], "occurrence")]

\* C9: when generate_repeat_events has returned, the records it appended are
\* the copies at T + k * R, k >= 1, strictly inside the window, one for each
\* such k of each stored event with a repeat interval R >= 1: with the
\* event's title and location and no 'repeat' key; and the stored events
\* displayed are stored events unchanged, none of them a copy.
C9_RepeatsExpanded ==
  expanded =>
    /\ Len(repeat_events) = Cardinality(Repeats)
    /\ \A x \in Range(Appended) \cup {Occurrence(loaded[p[1]], p[2]) : p \in Repeats} :
         Count(Appended, x)
           = Cardinality({p \in Repeats : Occurrence(loaded[p[1]], p[2]) = x})
    /\ SameBag(SelectSeq(Displayed, LAMBDA e : ~IsOccurrence(e)),
               Within(loaded, min_datetime, max_datetime))

\* C9 witness: two copies of one stored event that has a location and lies
\* before the window.
C9_Witness ==
  /\ expanded /\ Len(repeat_events) = 2 /\ Len(loaded) = 1
  /\ HasKey(loaded[1], "location")
  /\ Timestamp(loaded[1]) < min_datetime

\* C10: a print on an events file that is a JSON array leaves the events
\* file and the backup file as they were; and no record of the events file
\* or of the backup file is ever one add_repeat_event made.
C10_PresentReadsOnly ==
  /\ (option.name = "print" /\ file0.kind = "json") => file = file0 /\ bak = bak0
  /\ \A i \in 1 .. Len(file.events) : ~IsOccurrence(file.events[i])
  /\ \A i \in 1 .. Len(bak.events) : ~IsOccurrence(bak.events[i])

\* C10 witness: a print that displayed an occurrence, after a delete left a
\* backup file.
C10_Witness ==
  /\ option.name = "print" /\ pc = "done" /\ diary.printed
  /\ repeat_events # <<>>
  /\ bak0.kind = "json"

\* c continues the repeating record e: a copy of e but for its ISO, k >= 1
\* intervals after e.
Continues(c, e) ==
  /\ GetRepeat(e) # 0
  /\ c = WithKey(e, "ISO", c.ISO)
  /\ \E k \in 1 .. (DATETIME_MAX + 1) :
       Timestamp(c) = Timestamp(e) + k * GetRepeat(e) * TicksPerDay

\* C11: every record delete_events appended for a yes to 'continue
\* repeating' is a copy of a record of events_to_delete, with its title,
\* location and repeat, whose timestamp is the first T + k * R (k >= 1)
\* strictly after max_datetime.
C11_ContinuationAfterUpper ==
  option.name = "delete" =>
    \A i \in 1 .. Len(continuations) :
      \E e \in Range(events_to_delete) :
        /\ Continues(continuations[i], e)
        /\ Timestamp(continuations[i]) > max_datetime
        /\ Timestamp(continuations[i]) - GetRepeat(e) * TicksPerDay <= max_datetime

\* The statement of C11 with 'at or after max_datetime' for 'strictly after'.
ContinuationNotBeforeUpper ==
  option.name = "delete" =>
    \A i \in 1 .. Len(continuations) :
      \E e \in Range(events_to_delete) :
        /\ Continues(continuations[i], e)
        /\ Timestamp(continuations[i]) >= max_datetime
        /\ Timestamp(continuations[i]) - GetRepeat(e) * TicksPerDay < max_datetime

\* C12 as stated: in an add-event, once the user has answered no to 'Would
\* you like to add this event' or typed 'q' at a prompt (title, date, time,
\* days of repeat), the process has ended with no record appended and with
\* the events file and the backup file as they were when it started.
C12_AddAbortsOnNoOrQuit ==
  (option.name = "add-event" /\ (confirmed = "no" \/ typed_q # {})) =>
    pc = "done" /\ events = loaded /\ file = file0 /\ bak = bak0

\* C12 (amended): in an add-event, once the user has answered no to 'Would
\* you like to add this event' or typed 'q' for the date or the time, the
\* process has ended with status 0, no record appended, the backup file as
\* it was and the events file as __init__ left it (as it was, or created
\* with an empty array when there was none).  A 'q' for the title is the
\* title of the event, and a 'q' for the days of repeat leaves the event
\* without a repeat; either way the confirmation prompt follows.
C12_AddAbortsOnNoOrDateQuit ==
  option.name = "add-event" =>
    /\ (confirmed = "no" \/ typed_q \cap {"add_date", "add_time"} # {}) =>
         /\ pc = "done" /\ exit_status = 0
         /\ events = loaded /\ file = FileLoaded /\ bak = bak0
    /\ "add_title" \in typed_q =>
         /\ add_title = "q"
         /\ new_event_dict # NoEvent => new_event_dict.title = "q"
    /\ "add_repeat_days" \in typed_q =>
         /\ ~HasKey(new_event_dict, "repeat")
         /\ "add_confirm" \in asked
         /\ (pc = "done" /\ confirmed = "yes" /\ exit_status = 0) =>
              file = JsonDump(Append(loaded, new_event_dict))

\* C12 witness: an add-event on a file with a record ended after a 'q' for
\* the time.
C12_Witness ==
  /\ option.name = "add-event" /\ pc = "done"
  /\ "add_time" \in typed_q /\ loaded # <<>>

\* Some record of s lacks a required key.
LacksAKey(s) == \E i \in 1 .. Len(s) : \E k \in REQUIRED_KEYS : ~HasKey(s[i], k)

\* C13: a process that loaded a record without 'title' or without 'ISO'
\* ends before the function of its option is called: no prompt is shown,
\* nothing of the option is printed, no window is set, and the events file
\* and the backup file are as they were when the process started.
C13_MissingKeyAborts ==
  (pc # "idle" /\ LacksAKey(loaded)) =>
    /\ pc = "done" /\ exit_status # 0
    /\ asked = {} /\ typed_q = {} /\ confirmed = "none"
    /\ ~diary.printed /\ events_to_delete = <<>>
    /\ min_datetime = Unset /\ max_datetime = Unset
    /\ stdout \cap {"help", "version", "save-diary", "Events deleted."} = {}
    /\ file = file0 /\ bak = bak0

\* C13 witness: an add-event ended on a file whose record has no 'title'.
C13_Witness ==
  /\ pc = "done" /\ option.name = "add-event"
  /\ Len(loaded) = 1 /\ ~HasKey(loaded[1], "title") /\ HasKey(loaded[1], "ISO")

\* The events file the process started on exists and json.load rejects it.
InvalidStore == pc # "idle" /\ file0.kind \in {"garbage", "empty"}

\* C14: a process started on an events file that is no JSON document goes
\* on with self.events empty and, whatever its option and the answers of
\* the user, the events file stays as it was.
C14_InvalidStoreUntouched ==
  InvalidStore => loaded = <<>> /\ now # Unset /\ file = file0

\* The statement of C14 but for an add-event the user confirmed.
InvalidStoreUntouchedUnlessAdded ==
  (InvalidStore /\ ~(option.name = "add-event" /\ confirmed = "yes")) =>
    loaded = <<>> /\ now # Unset /\ file = file0

\* The process got past __init__; the bound set_min_max_datetimes computes
\* for its day count is no datetime.
Constructed == pc # "idle" /\ now # Unset
DayCountGiven == Constructed /\ option.name \in {"print", "delete"}
RangeOverflows ==
  /\ DayCountGiven /\ option.arg.s = "int" /\ NumDays # 0
  /\ ~Representable(IF NumDays >= 0 THEN Upper(now, NumDays) ELSE Lower(now, NumDays))

\* The process ended the way its option is meant to end: the diary, the
\* usage or the version printed, the diary saved, nothing to remove, the
\* events removed, the event added, or the user declined or quit.
CompletedNormally ==
  /\ pc = "done"
  /\ \/ diary.printed
     \/ stdout \cap {"help", "version", "save-diary", "No events to remove.",
                      "Events deleted."} # {}
     \/ confirmed = "no"
     \/ typed_q \cap {"add_date", "add_time"} # {}
     \/ /\ option.name = "add-event" /\ confirmed = "yes"
        /\ file = JsonDump(Append(loaded, new_event_dict)) /\ bak = Absent

\* What C15 says of every case but the day count that is no integer.
ExitStatusOfTheOtherCases ==
  /\ (pc = "done" /\ file0.kind = "dir") =>
       exit_status # 0 /\ "is a directory. Aborting." \in stdout
  /\ (pc = "done" /\ RangeOverflows) =>
       exit_status # 0 /\ "Range of days is too large. Aborting." \in stdout
  /\ CompletedNormally => exit_status = 0

\* C15: a process ends with a status other than 0, after an error message,
\* when the events file is a directory, when the day count of --print or
\* --delete is no integer, or when the window of the day count overflows;
\* it ends with status 0 when it completes normally, a declined add or
\* delete included.
C15_ExitStatus ==
  /\ ExitStatusOfTheOtherCases
  /\ (pc = "done" /\ DayCountGiven /\ option.arg.s # "int") =>
       exit_status # 0 /\ "Number of days must be an integer." \in stdout

\* The statement of C15 with status 0 for the day count that is no integer.
ExitStatusZeroOnBadDayCount ==
  /\ ExitStatusOfTheOtherCases
  /\ (pc = "done" /\ DayCountGiven /\ option.arg.s # "int") =>
       exit_status = 0 /\ "Number of days must be an integer." \in stdout

\* The write of the events file, which the user had confirmed, did not end
\* well: the process ended with a status other than 0.
CommitFailed ==
  /\ option.name \in {"add-event", "delete"}
  /\ pc = "done" /\ confirmed = "yes" /\ exit_status # 0

\* C16: when the write of an add-event or of a delete fails or is cut short
\* after the backup, the backup file holds the whole events file as it was
\* before the write, and the events file holds either all it held before
\* the write or all that was to be written.
C16_FailedWriteKeepsStore ==
  CommitFailed =>
    /\ bak = FileLoaded
    /\ file \in {FileLoaded, JsonDump(events)}

\* The first half of C16: the backup file after a write that failed.
FailedWriteKeepsBackup ==
  CommitFailed => bak = FileLoaded /\ bak # Absent

\* The event of the add-event is earlier than self.now, and the user has
\* been shown it with 'Would you like to add this event to the diary'.
PastEventShown ==
  /\ option.name = "add-event" /\ "add_confirm" \in asked
  /\ IF new_event_dict = NoEvent THEN FALSE ELSE Timestamp(new_event_dict) < now

\* The messages add_event prints besides its prompts and the event shown.
AddMessages == {"No repeat key added."}

\* C17: when the event of an add-event is earlier than now, a warning is
\* printed with the event shown for confirmation, and a yes still appends
\* the event and writes it.
C17_PastEventWarned ==
  PastEventShown =>
    /\ stdout \ AddMessages # {}
    /\ (pc = "done" /\ confirmed = "yes" /\ exit_status = 0) =>
         file = JsonDump(Append(loaded, new_event_dict))

\* The statement of C17 with no warning printed.
PastEventAddedUnwarned ==
  PastEventShown =>
    /\ stdout \ AddMessages = {}
    /\ (pc = "done" /\ confirmed = "yes" /\ exit_status = 0) =>
         file = JsonDump(Append(loaded, new_event_dict))

\* Both add-event processes read the same events file: a write empties the
\* file and then leaves a longer array in it, so neither process had begun
\* to write when the other read.  Both have been confirmed and have written.
BothLoadedFirst ==
  /\ peer.pc # "none" /\ option.name = "add-event"
  /\ file0.kind # "empty" /\ peer.file0.kind # "empty"
  /\ read_events_file(file0).file = read_events_file(peer.file0).file
BothWrote ==
  /\ confirmed = "yes" /\ pc \in {"remove_backup", "done"}
  /\ peer.confirmed = "yes" /\ peer.pc \in {"remove_backup", "done"}

\* C18: nothing locks the events file.  When two add-event processes have
\* both read it before either wrote, both users have confirmed and both
\* writes are done, the events file never holds both new events: it holds
\* the events read and the new event of one process only, or text that is
\* no JSON document.  C18_Witness is such a run, in which one event is lost.
C18_LostUpdate ==
  (BothLoadedFirst /\ BothWrote) =>
    file \in {JsonDump(Append(loaded, new_event_dict)),
              JsonDump(Append(loaded, peer.new_event_dict)), Garbage}

\* C18 witness: both processes read the events file with its one record,
\* both wrote and ended with status 0, and the events file holds that
\* record and the new event of the second process, not that of the first.
C18_Witness ==
  /\ BothLoadedFirst /\ BothWrote
  /\ pc = "done" /\ exit_status = 0 /\ peer.pc = "done" /\ peer.exit_status = 0
  /\ Len(loaded) = 1
  /\ file = JsonDump(Append(loaded, peer.new_event_dict))
  /\ new_event_dict \notin Range(file.events)

\* 'while d < mx: d += timedelta(days=R)', the loop of generate_repeat_events
\* and of add_new_repeat_...: whether it ends, on its test or by the
\* OverflowError of the sum, within the given number of turns.
RECURSIVE LoopEnds(_, _, _, _)
LoopEnds(d, R, mx, turns) ==
  IF ~Representable(d) THEN TRUE
  ELSE IF d >= mx THEN TRUE
  ELSE IF turns = 0 THEN FALSE
  ELSE LoopEnds(PlusDays(d, R), R, mx, turns - 1)

\* The records a process holds or has written.
RecordsAtHand ==
  (IF file.kind = "json" THEN Range(file.events) ELSE {})
    \cup (IF bak.kind = "json" THEN Range(bak.events) ELSE {})
    \cup Range(events) \cup Range(events_to_delete)
    \cup (IF new_event_dict = NoEvent THEN {} ELSE {new_event_dict})

\* C19: in every events file that add-event and delete processes make of
\* an empty one, whatever the user answers, the 'repeat' of a record that
\* has one is an integer >= 1; so for every such record and every
\* max_datetime the loop of generate_repeat_events and the loop of
\* add_new_repeat_... advance at each turn and end within as many turns as
\* there are datetimes.
C19_RepeatsPositive ==
  \A e \in RecordsAtHand :
    HasKey(e, "repeat") =>
      /\ e.repeat \in Nat /\ e.repeat >= 1
      /\ \A mx \in Datetimes :
           /\ PlusDays(Timestamp(e), e.repeat) > Timestamp(e)
           /\ LoopEnds(PlusDays(Timestamp(e), e.repeat), e.repeat, mx, DATETIME_MAX + 1)

\* C19 witness: the events file holds a record that repeats, appended by a
\* delete for a yes to 'continue repeating', next to a record an add-event
\* wrote.
C19_Witness ==
  /\ pc = "done" /\ option.name = "delete" /\ confirmed = "yes" /\ exit_status = 0
  /\ continuations # <<>>
  /\ file.kind = "json" /\ Len(file.events) = 2
  /\ \E e \in Range(file.events) : HasKey(e, "repeat") /\ e.repeat > 1

\* C20: the backup file a confirmed delete left is neither changed nor
\* removed by the print and add-event processes that follow it: while such
\* a process runs, and when it has ended, the backup file is there and is
\* as the delete left it.
C20_UndoKept ==
  (undo /\ option.name \in {"print", "add-event"}) =>
    bak = bak0 /\ bak.kind = "json"

\* The statement of C20 but for an add-event the user confirmed.
UndoKeptUnlessAdded ==
  (undo /\ option.name \in {"print", "add-event"}
     /\ ~(option.name = "add-event" /\ confirmed = "yes")) =>
    bak = bak0 /\ bak.kind = "json"
====
